---- MODULE Spec2Model ----
(***************************************************************************)
(* AntennaTracker/tracking.cpp as a state machine.                         *)
(*                                                                         *)
(* The 50 Hz task update_tracking is followed statement by statement: pc   *)
(* names the next call it makes, and no message handler runs while it is   *)
(* in progress (one cooperative thread).  Times are whole milliseconds     *)
(* since boot.  Integer fields keep their C arithmetic (truncating         *)
(* division and float-to-int conversion); the 32-bit microsecond counter   *)
(* keeps its wrap.                                                         *)
(***************************************************************************)
EXTENDS Integers, Sequences, FiniteSets, TLC

VARIABLES
    now_ms,               \* time since boot, ms (the monotonic clock itself)
    g,                    \* parameters: startup_delay, alt_source, pitch_trim
    start_time_ms,        \* millis() at start-up
    vehicle,              \* Tracker::vehicle
    current_loc,          \* tracker position, filtered
    old_loc,              \* previous filtered tracker position
    nav_status,           \* Tracker::nav_status
    control_mode,         \* Tracker::control_mode
    delay_timer,          \* the file-scope int delay_timer
    notify_armed,         \* AP_Notify::flags.armed
    pc,                   \* next call of update_tracking, "idle" between ticks
    called,               \* calls made by the current / most recent update_tracking
    last_rx_ms,           \* history: time of the last tracking_update_position, -1 if none
    band_since,           \* history: time since which update_initialising has seen
                          \* the pitch inside the band without a break, -1 if it is not
    servo_calls,          \* servo-channel calls made by the current update_tracking
    gps_read              \* gps.status() as the current update_tracking read it, 0 if
                          \* it has not

vars == <<now_ms, g, start_time_ms, vehicle, current_loc, old_loc, nav_status,
          control_mode, delay_timer, notify_armed, pc, called, last_rx_ms, band_since,
          servo_calls, gps_read>>

-----------------------------------------------------------------------------
(* Bounds of the model *)

\* the clock stops advancing here
MaxTimeMs == 5000
\* with the long telemetry gap, the clock stops here
MaxLongTimeMs == 4299000
\* a calibration is requested only while |altitude_offset| is at most this
MaxAltOffset == 12

\* one step of the clock, and a gap long enough for micros() to wrap
StepMs == 2 * 500
LongGapMs == 4294 * 1000

-----------------------------------------------------------------------------
(* Clocks *)

\* The microsecond counter is held in units of 8 us: 1 ms is 125 units and the
\* uint32_t counter, which wraps at 2^32 us, wraps at 2^29 units.
UnitsPerMs == 5 * 25
UnitsPerSec == 1000 * UnitsPerMs
MicrosWrap == 2 ^ 29

\* hal.scheduler->micros(), uint32_t
Micros == (now_ms * UnitsPerMs) % MicrosWrap

\* hal.scheduler->millis(), uint32_t: it wraps after 49.7 days, far beyond MaxLongTimeMs
Millis == now_ms

TRACKING_TIMEOUT_SEC == 5
TRACKING_TIMEOUT_MS == 5000

\* C integer division truncates toward zero
TruncDiv(a, b) == IF a >= 0 THEN a \div b ELSE -((-a) \div b)

Abs(x) == IF x < 0 THEN -x ELSE x

\* pythagorous2(a, b) = sqrtf(a*a + b*b), to the whole number below
pythagorous2(a, b) ==
    CHOOSE r \in 0..(Abs(a) + Abs(b)) :
        r * r <= a * a + b * b /\ a * a + b * b < (r + 1) * (r + 1)

ZeroLoc == [lat |-> 0, lng |-> 0, alt |-> 0]

-----------------------------------------------------------------------------
(* Vehicle state estimator *)

\* Unit vector of a bearing, on the four cardinal bearings the model uses
North(bearing) == CASE bearing = 0 -> 1 [] bearing = 180 -> -1 [] OTHER -> 0
East(bearing) == CASE bearing = 90 -> 1 [] bearing = 270 -> -1 [] OTHER -> 0

\* location_update(loc, bearing, distance): loc moved distance metres along
\* bearing.  One unit of lat / lng is one metre here.
location_update(loc, bearing, distance) ==
    [loc EXCEPT !.lat = @ + North(bearing) * distance,
                !.lng = @ + East(bearing) * distance]

\* (micros() - last_update_us), a uint32_t difference, in counter units
ElapsedUnits(v) == (Micros - v.last_update_us + MicrosWrap) % MicrosWrap

\* dt < TRACKING_TIMEOUT_SEC.  dt = units * 1.0e-6f is a float, and the float
\* product is below 5.0f exactly when the difference is below 5 000 000 us.
DtBelowTimeout(v) == ElapsedUnits(v) < TRACKING_TIMEOUT_SEC * UnitsPerSec

\* vehicle.ground_speed * dt, in whole metres (ground_speed is in m/s)
Projected(v) == (v.ground_speed * ElapsedUnits(v)) \div UnitsPerSec

VehiclePosEstimate_Accumulating(v) ==
    IF DtBelowTimeout(v)
    THEN [v EXCEPT !.location_estimate =
                       location_update(v.location_estimate, v.heading, Projected(v)),
                   !.location_valid = TRUE]
    ELSE [v EXCEPT !.location_valid = FALSE]

\* vehicle after update_vehicle_pos_estimate
VehiclePosEstimate(v) ==
    IF DtBelowTimeout(v)
    THEN [v EXCEPT !.location_estimate =
                       location_update(v.location, v.heading, Projected(v)),
                   !.location_valid = TRUE]
    ELSE [v EXCEPT !.location_valid = FALSE]

-----------------------------------------------------------------------------
(* Tracker position filter *)

\* Single-precision arithmetic on the non-negative values of the model.  A float
\* has a 24-bit significand; a product or sum is rounded to nearest, ties to even.
BitLen(m) == IF m = 0 THEN 0 ELSE CHOOSE n \in 1..30 : 2 ^ (n - 1) <= m /\ m < 2 ^ n

\* m rounded to a multiple of 2^sh
RoundShift(m, sh) ==
    IF sh <= 0 THEN m
    ELSE LET u == 2 ^ sh
             q == m \div u
             r == m % u
             up == r > u \div 2 \/ (r = u \div 2 /\ q % 2 = 1)
         IN  (IF up THEN q + 1 ELSE q) * u

\* m rounded to 24 significant bits
RoundFloat(m) == RoundShift(m, BitLen(m) - 24)

\* 0.95f is 15938355 * 2^-24 and 0.05f is 13421773 * 2^-28
Frac24 == 2 ^ 24
Frac28 == 2 ^ 28

\* 0.95f * x, in units of 2^-24
Mul095(x) == RoundFloat(15938355 * x)

\* 0.05f * x, in units of 2^-28
Mul005(x) == RoundFloat(13421773 * x)

\* (int32_t)(0.95f * old + 0.05f * raw): the two float products, their float
\* sum, and the conversion to the integer field, which drops the fraction
Blend(old, raw) ==
    LET p1 == Mul095(old)
        p2 == Mul005(raw)
        fsum == (p1 % Frac24) * 16 + (p2 % Frac28)
        ipart == p1 \div Frac24 + p2 \div Frac28 + fsum \div Frac28
        fpart == fsum % Frac28
        rounded == IF ipart = 0 THEN RoundFloat(fpart)
                   ELSE RoundShift(fpart, BitLen(ipart) + 4)
    IN  ipart + rounded \div Frac28

\* AP_GPS::GPS_Status
NO_FIX == 1
GPS_OK_FIX_2D == 2

TrackerPosition_NoStatusCheck(cur, old, fix) ==
    LET raw == fix.location
        prev == IF old.alt = 0 /\ old.lat = 0 /\ old.lng = 0 THEN raw ELSE old
        new == [alt |-> Blend(prev.alt, raw.alt),
                lat |-> Blend(prev.lat, raw.lat),
                lng |-> Blend(prev.lng, raw.lng)]
    IN  [current_loc |-> new, old_loc |-> new]

\* current_loc and old_loc after update_tracker_position reads fix from the driver
TrackerPosition(cur, old, fix) ==
    IF fix.status >= GPS_OK_FIX_2D
    THEN LET raw == fix.location
             prev == IF old.alt = 0 /\ old.lat = 0 /\ old.lng = 0 THEN raw ELSE old
             new == [alt |-> Blend(prev.alt, raw.alt),
                     lat |-> Blend(prev.lat, raw.lat),
                     lng |-> Blend(prev.lng, raw.lng)]
         IN  [current_loc |-> new, old_loc |-> new]
    ELSE [current_loc |-> cur, old_loc |-> old]

-----------------------------------------------------------------------------
(* Bearing, distance and pitch *)

Sign(x) == IF x > 0 THEN 1 ELSE IF x < 0 THEN -1 ELSE 0

\* get_distance(a, b), metres
get_distance(a, b) == pythagorous2(b.lat - a.lat, b.lng - a.lng)

\* get_bearing_cd(a, b), centi-degrees, to the nearest of the eight compass
\* points; two equal locations give 9000, as atan2f(-0, 0) + 9000 does
get_bearing_cd(a, b) ==
    LET n == Sign(b.lat - a.lat)
        e == Sign(b.lng - a.lng)
    IN  CASE n = 1 /\ e = 0 -> 0
          [] n = 1 /\ e = 1 -> 4500
          [] n = 0 /\ e >= 0 -> 9000
          [] n = -1 /\ e = 1 -> 13500
          [] n = -1 /\ e = 0 -> 18000
          [] n = -1 /\ e = -1 -> 22500
          [] n = 0 /\ e = -1 -> 27000
          [] OTHER -> 31500

\* degrees(atan2f(y, x)) for x >= 0, to the nearest of 0, 22, 45, 67, 90 degrees
Atan2Degrees(y, x) ==
    Sign(y) * (CASE y = 0 -> 0
                 [] x = 0 -> 90
                 [] Abs(y) = x -> 45
                 [] Abs(y) < x -> 22
                 [] OTHER -> 67)

SERVO_TEST == "SERVO_TEST"
SCAN == "SCAN"
AUTO == "AUTO"
MANUAL == "MANUAL"
STOP == "STOP"
INITIALISING == "INITIALISING"
ControlModes == {AUTO, MANUAL, SCAN, SERVO_TEST, STOP, INITIALISING}

Recalculated_OverridesIgnored(nav, v, mode, cur) ==
    LET distance == get_distance(cur, v.location_estimate)
    IN  [nav EXCEPT
            !.bearing = IF mode # SCAN
                        THEN get_bearing_cd(cur, v.location_estimate) \div 100
                        ELSE @,
            !.distance = distance,
            !.pitch = IF mode # SCAN
                      THEN Atan2Degrees(nav.altitude_difference, distance)
                      ELSE @]

\* nav_status after the three calculations of update_bearing_and_distance
Recalculated(nav, v, mode, cur) ==
    LET distance == get_distance(cur, v.location_estimate)
    IN  [nav EXCEPT
            !.bearing = IF mode # SCAN /\ ~nav.manual_control_yaw
                        THEN get_bearing_cd(cur, v.location_estimate) \div 100
                        ELSE @,
            !.distance = distance,
            !.pitch = IF mode # SCAN /\ ~nav.manual_control_pitch
                      THEN Atan2Degrees(nav.altitude_difference, distance)
                      ELSE @]

BearingAndDistance_NoServoTest(nav, v, mode, cur) ==
    IF ~v.location_valid THEN nav ELSE Recalculated(nav, v, mode, cur)

\* nav_status after update_bearing_and_distance
BearingAndDistance(nav, v, mode, cur) ==
    IF ~v.location_valid \/ mode = SERVO_TEST
    THEN nav
    ELSE Recalculated(nav, v, mode, cur)

-----------------------------------------------------------------------------
(* Telemetry handlers *)

\* nav_status after tracking_update_gps_alt
GpsAlt(nav, v, cur) ==
    IF v.location_valid
    THEN [nav EXCEPT !.altitude_difference = TruncDiv(v.location.alt - cur.alt, 100)]
    ELSE nav

\* vehicle after the assignments of tracking_update_position.  msg.hdg and the
\* speed are multiples of 100 in the model, so that * 0.01f is exact.
PositionUpdate(v, msg) ==
    [v EXCEPT !.location = [lat |-> msg.lat, lng |-> msg.lon,
                            alt |-> TruncDiv(msg.alt, 10)],
              !.heading = msg.hdg \div 100,
              !.ground_speed = pythagorous2(msg.vx, msg.vy) \div 100,
              !.last_update_us = Micros,
              !.last_update_ms = Millis]

PressureUpdate_RawOffset(nav, alt_diff) ==
    LET fused == IF ~alt_diff.isnan
                 THEN [nav EXCEPT !.altitude_difference = alt_diff.val + nav.altitude_offset]
                 ELSE nav
    IN  IF fused.need_altitude_calibration
        THEN [fused EXCEPT !.altitude_offset = -alt_diff.val,
                           !.altitude_difference = 0,
                           !.need_altitude_calibration = FALSE]
        ELSE fused

\* nav_status after tracking_update_pressure, in barometric mode; alt_diff is
\* what barometer.get_altitude_difference returned, NaN or a number of metres
PressureUpdate(nav, alt_diff) ==
    LET fused == IF ~alt_diff.isnan
                 THEN [nav EXCEPT !.altitude_difference = alt_diff.val + nav.altitude_offset]
                 ELSE nav
    IN  IF fused.need_altitude_calibration
        THEN [fused EXCEPT !.altitude_offset = -fused.altitude_difference,
                           !.altitude_difference = 0,
                           !.need_altitude_calibration = FALSE]
        ELSE fused

\* the value of mavlink_manual_control_t's x and y that marks an unused axis
AxisUnused == 32767

ManualControl_KeepDistance(nav, msg) ==
    [nav EXCEPT !.bearing = msg.x,
                !.pitch = msg.y,
                !.manual_control_yaw = (msg.x # AxisUnused),
                !.manual_control_pitch = (msg.y # AxisUnused)]

\* nav_status after tracking_manual_control
ManualControl(nav, msg) ==
    [nav EXCEPT !.bearing = msg.x,
                !.pitch = msg.y,
                !.distance = 0,
                !.manual_control_yaw = (msg.x # AxisUnused),
                !.manual_control_pitch = (msg.y # AxisUnused)]

\* AP_Notify::flags.armed after update_armed_disarmed
ArmedDisarmed(v) ==
    v.last_update_ms # 0 /\ Millis - v.last_update_ms < TRACKING_TIMEOUT_MS

-----------------------------------------------------------------------------
(* Mode dispatch *)

\* the settle band of update_initialising, degrees
InBand(ahrs_pitch) == ahrs_pitch < 50 /\ ahrs_pitch > 40

\* constrain_float(amt, low, high)
constrain_float(amt, low, high) ==
    IF amt < low THEN low ELSE IF amt > high THEN high ELSE amt

\* a call on a servo channel; arg is the angle passed, 0 where there is none
ServoCall(call, arg) == [call |-> call, arg |-> arg]

Initialising_PitchUnclamped(nav, mode, timer, ahrs_pitch) ==
    LET nav1 == [nav EXCEPT !.pitch = 45]
        servo == <<ServoCall("channel_yaw.disable_out", 0),
                   ServoCall("channel_pitch.enable_out", 0),
                   ServoCall("update_pitch_servo", nav1.pitch + g.pitch_trim)>>
        timer1 == IF timer = 0 THEN Millis ELSE timer
    IN  IF InBand(ahrs_pitch)
        THEN IF g.startup_delay > 0 /\ Millis - timer1 < g.startup_delay * 1000
             THEN [nav |-> nav1, mode |-> mode, timer |-> timer1, servo |-> servo]
             ELSE [nav |-> nav1, mode |-> AUTO, timer |-> timer1, servo |-> servo]
        ELSE [nav |-> nav1, mode |-> mode, timer |-> timer, servo |-> servo]

\* nav_status, control_mode and delay_timer after update_initialising, and the
\* servo calls it makes, in order
Initialising(nav, mode, timer, ahrs_pitch) ==
    LET nav1 == [nav EXCEPT !.pitch = 45]
        pitch == constrain_float(nav1.pitch + g.pitch_trim, -90, 90)
        servo == <<ServoCall("channel_yaw.disable_out", 0),
                   ServoCall("channel_pitch.enable_out", 0),
                   ServoCall("update_pitch_servo", pitch)>>
        timer1 == IF timer = 0 THEN Millis ELSE timer
    IN  IF InBand(ahrs_pitch)
        THEN IF g.startup_delay > 0 /\ Millis - timer1 < g.startup_delay * 1000
             THEN [nav |-> nav1, mode |-> mode, timer |-> timer1, servo |-> servo]
             ELSE [nav |-> nav1, mode |-> AUTO, timer |-> timer1, servo |-> servo]
        ELSE [nav |-> nav1, mode |-> mode, timer |-> timer, servo |-> servo]

\* the startup-delay gate of update_tracking returns
StartupGate == g.startup_delay > 0 /\ Millis - start_time_ms < g.startup_delay * 1000

SafetyGate_Ignored(safety) == FALSE

\* the safety-switch gate of update_tracking returns
SafetyGate(safety) == safety = "SAFETY_DISARMED"

Handler_StopUnhandled(mode) ==
    CASE mode = AUTO -> "update_auto"
      [] mode = MANUAL -> "update_manual"
      [] mode = SCAN -> "update_scan"
      [] mode = SERVO_TEST -> "update_servo_test"
      [] mode = STOP -> "update_manual"
      [] mode = INITIALISING -> "update_initialising"

\* the handler the switch of update_tracking calls
Handler(mode) ==
    CASE mode = AUTO -> "update_auto"
      [] mode = MANUAL -> "update_manual"
      [] mode = SCAN -> "update_scan"
      [] mode = SERVO_TEST -> "update_servo_test"
      [] mode = STOP -> "disarm_servos"
      [] mode = INITIALISING -> "update_initialising"

-----------------------------------------------------------------------------
(* Inputs *)

NoFix == [status |-> NO_FIX, location |-> ZeroLoc]
Fix(lat, lng, alt) ==
    [status |-> GPS_OK_FIX_2D, location |-> [lat |-> lat, lng |-> lng, alt |-> alt]]

FilterFixes == {NoFix, Fix(0, 0, 0), Fix(13, 1, 2)}

\* mavlink_global_position_int_t: alt in mm, hdg in centi-degrees, vx / vy in cm/s
MovingMsg == [lat |-> 10, lon |-> 0, alt |-> 1000, hdg |-> 9000, vx |-> 600, vy |-> 800]
StationaryMsg == [lat |-> 0, lon |-> 5, alt |-> 2505, hdg |-> 0, vx |-> 0, vy |-> 0]
PositionMsgs == {MovingMsg, StationaryMsg}

NaN == [isnan |-> TRUE, val |-> 0]
Metres(n) == [isnan |-> FALSE, val |-> n]
AltDiffs == {NaN, Metres(12)}

ManualMsgs == { [x |-> AxisUnused, y |-> 100], [x |-> 100, y |-> AxisUnused],
                [x |-> AxisUnused, y |-> AxisUnused] }

SafetyStates == {"SAFETY_NONE", "SAFETY_DISARMED", "SAFETY_ARMED"}

\* degrees(ahrs.pitch)
AhrsPitches == {40, 45}

Params == [startup_delay : {0, 2}, alt_source : {0, 1}, pitch_trim : {0}]

\* pitch trims inside the clamp and beyond either end of it
TrimParams == [startup_delay : {0, 2}, alt_source : {0}, pitch_trim : {-140, 0, 10, 50}]

-----------------------------------------------------------------------------
(* State after construction *)

InitWith(params) ==
    /\ now_ms = 0
    /\ g \in params
    /\ start_time_ms = 0
    /\ vehicle = [location |-> ZeroLoc, heading |-> 0, ground_speed |-> 0,
                  location_estimate |-> ZeroLoc, location_valid |-> FALSE,
                  last_update_us |-> 0, last_update_ms |-> 0]
    /\ current_loc = ZeroLoc
    /\ old_loc = ZeroLoc
    /\ nav_status = [bearing |-> 0, distance |-> 0, pitch |-> 0,
                     altitude_difference |-> 0, altitude_offset |-> 0,
                     manual_control_yaw |-> FALSE, manual_control_pitch |-> FALSE,
                     need_altitude_calibration |-> FALSE]
    /\ control_mode = INITIALISING
    /\ delay_timer = 0
    /\ notify_armed = FALSE
    /\ pc = "idle"
    /\ called = <<>>
    /\ last_rx_ms = -1
    /\ band_since = -1
    /\ servo_calls = <<>>
    /\ gps_read = 0

-----------------------------------------------------------------------------
(* The 50 Hz task update_tracking, call by call *)

update_vehicle_pos_estimate ==
    /\ pc = "idle"
    /\ vehicle' = VehiclePosEstimate(vehicle)
    /\ pc' = "update_tracker_position"
    /\ called' = <<"update_vehicle_pos_estimate">>
    /\ UNCHANGED <<now_ms, g, start_time_ms, current_loc, old_loc, nav_status,
                   control_mode, delay_timer, notify_armed, last_rx_ms, band_since,
                   servo_calls, gps_read>>

update_tracker_position(fix) ==
    /\ pc = "update_tracker_position"
    /\ current_loc' = TrackerPosition(current_loc, old_loc, fix).current_loc
    /\ old_loc' = TrackerPosition(current_loc, old_loc, fix).old_loc
    /\ pc' = "update_bearing_and_distance"
    /\ called' = Append(called, "update_tracker_position")
    /\ gps_read' = fix.status
    /\ UNCHANGED <<now_ms, g, start_time_ms, vehicle, nav_status, control_mode,
                   delay_timer, notify_armed, last_rx_ms, band_since, servo_calls>>

update_bearing_and_distance ==
    /\ pc = "update_bearing_and_distance"
    /\ nav_status' = BearingAndDistance(nav_status, vehicle, control_mode, current_loc)
    /\ pc' = "dispatch"
    /\ called' = Append(called, "update_bearing_and_distance")
    /\ UNCHANGED <<now_ms, g, start_time_ms, vehicle, current_loc, old_loc,
                   control_mode, delay_timer, notify_armed, last_rx_ms, band_since,
                   servo_calls, gps_read>>

\* the gates and the switch of update_tracking; the handlers of the other
\* modes are outside this file and only their call is recorded
update_tracking_dispatch(safety, ahrs_pitch) ==
    /\ pc = "dispatch"
    /\ pc' = "return"
    /\ IF StartupGate \/ SafetyGate(safety)
       THEN UNCHANGED <<nav_status, control_mode, delay_timer, called, band_since,
                        servo_calls>>
       ELSE /\ called' = Append(called, Handler(control_mode))
            /\ IF control_mode = INITIALISING
               THEN LET r == Initialising(nav_status, control_mode, delay_timer, ahrs_pitch)
                    IN  /\ nav_status' = r.nav
                        /\ control_mode' = r.mode
                        /\ delay_timer' = r.timer
                        /\ servo_calls' = r.servo
                        /\ band_since' = IF ~InBand(ahrs_pitch) THEN -1
                                         ELSE IF band_since = -1 THEN now_ms
                                         ELSE band_since
               ELSE UNCHANGED <<nav_status, control_mode, delay_timer, band_since,
                                servo_calls>>
    /\ UNCHANGED <<now_ms, g, start_time_ms, vehicle, current_loc, old_loc,
                   notify_armed, last_rx_ms, gps_read>>

update_tracking_return ==
    /\ pc = "return"
    /\ pc' = "idle"
    /\ called' = <<>>
    /\ servo_calls' = <<>>
    /\ gps_read' = 0
    /\ UNCHANGED <<now_ms, g, start_time_ms, vehicle, current_loc, old_loc, nav_status,
                   control_mode, delay_timer, notify_armed, last_rx_ms, band_since>>

-----------------------------------------------------------------------------
(* Message handlers and the other tasks, between two ticks *)

tracking_update_position(msg) ==
    /\ pc = "idle"
    /\ vehicle' = PositionUpdate(vehicle, msg)
    /\ nav_status' = IF g.alt_source = 1
                     THEN GpsAlt(nav_status, PositionUpdate(vehicle, msg), current_loc)
                     ELSE nav_status
    /\ last_rx_ms' = now_ms
    /\ UNCHANGED <<now_ms, g, start_time_ms, current_loc, old_loc, control_mode,
                   delay_timer, notify_armed, pc, called, band_since,
                   servo_calls, gps_read>>

tracking_update_pressure(alt_diff) ==
    /\ pc = "idle"
    /\ nav_status' = IF g.alt_source # 0 THEN nav_status
                     ELSE PressureUpdate(nav_status, alt_diff)
    /\ UNCHANGED <<now_ms, g, start_time_ms, vehicle, current_loc, old_loc, control_mode,
                   delay_timer, notify_armed, pc, called, last_rx_ms, band_since,
                   servo_calls, gps_read>>

tracking_manual_control(msg) ==
    /\ pc = "idle"
    /\ nav_status' = ManualControl(nav_status, msg)
    /\ UNCHANGED <<now_ms, g, start_time_ms, vehicle, current_loc, old_loc, control_mode,
                   delay_timer, notify_armed, pc, called, last_rx_ms, band_since,
                   servo_calls, gps_read>>

update_armed_disarmed ==
    /\ pc = "idle"
    /\ notify_armed' = ArmedDisarmed(vehicle)
    /\ UNCHANGED <<now_ms, g, start_time_ms, vehicle, current_loc, old_loc, nav_status,
                   control_mode, delay_timer, pc, called, last_rx_ms, band_since,
                   servo_calls, gps_read>>

\* a mode selected from outside (set_mode from the ground station)
mode_command(mode) ==
    /\ pc = "idle"
    /\ control_mode' = mode
    /\ UNCHANGED <<now_ms, g, start_time_ms, vehicle, current_loc, old_loc, nav_status,
                   delay_timer, notify_armed, pc, called, last_rx_ms, band_since,
                   servo_calls, gps_read>>

\* an altitude calibration requested from outside
calibration_request ==
    /\ pc = "idle"
    /\ Abs(nav_status.altitude_offset) <= MaxAltOffset
    /\ nav_status' = [nav_status EXCEPT !.need_altitude_calibration = TRUE]
    /\ UNCHANGED <<now_ms, g, start_time_ms, vehicle, current_loc, old_loc, control_mode,
                   delay_timer, notify_armed, pc, called, last_rx_ms, band_since,
                   servo_calls, gps_read>>

\* the clock advances by d, up to limit
Advance(d, limit) ==
    /\ pc = "idle"
    /\ now_ms + d <= limit
    /\ now_ms' = now_ms + d
    /\ UNCHANGED <<g, start_time_ms, vehicle, current_loc, old_loc, nav_status,
                   control_mode, delay_timer, notify_armed, pc, called, last_rx_ms,
                   band_since, servo_calls, gps_read>>

-----------------------------------------------------------------------------
(* Specifications *)

\* one call of update_tracking, with the sensor readings drawn from the given sets
Tick(fixes, safeties, pitches) ==
    \/ update_vehicle_pos_estimate
    \/ \E fix \in fixes : update_tracker_position(fix)
    \/ update_bearing_and_distance
    \/ \E safety \in safeties, p \in pitches : update_tracking_dispatch(safety, p)
    \/ update_tracking_return

\* the clock in steps of a second up to MaxTimeMs, and, with gaps, over one
\* gap long enough for micros() to wrap
Clock(gaps) ==
    \/ Advance(StepMs, MaxTimeMs)
    \/ \E d \in gaps : now_ms < d /\ Advance(d, MaxLongTimeMs)
    \/ now_ms >= LongGapMs /\ Advance(StepMs, MaxLongTimeMs)

\* The vehicle state estimator: telemetry, ticks with the servos held by the
\* safety switch, and the clock.
InitEstimator == InitWith({p \in Params : p.startup_delay = 0})

NextEstimator ==
    \/ Clock({LongGapMs})
    \/ Tick({NoFix}, {"SAFETY_DISARMED"}, {45})
    \/ \E msg \in PositionMsgs : tracking_update_position(msg)
    \/ update_armed_disarmed

SpecEstimator == InitEstimator /\ [][NextEstimator]_vars

\* The tracker position filter: ticks with every kind of fix.
NextFilter ==
    \/ Tick(FilterFixes, SafetyStates, AhrsPitches)
    \/ \E mode \in {INITIALISING, STOP} : mode_command(mode)

SpecFilter == InitWith(Params) /\ [][NextFilter]_vars

\* The mode state machine: ticks, mode commands and the clock.
NextMode ==
    \/ Advance(StepMs, MaxTimeMs)
    \/ Tick({NoFix}, SafetyStates, AhrsPitches)
    \/ \E mode \in ControlModes : mode_command(mode)

SpecMode == InitWith(Params) /\ [][NextMode]_vars

\* Start-up: ticks in INITIALISING with every pitch trim, and the clock.
NextInitialising ==
    \/ Advance(StepMs, MaxTimeMs)
    \/ Tick({NoFix}, SafetyStates, AhrsPitches)
    \/ \E mode \in {INITIALISING, STOP} : mode_command(mode)

SpecInitialising == InitWith(TrimParams) /\ [][NextInitialising]_vars

\* Navigation status: every message handler, ticks and mode commands; the clock
\* steps over the lost-vehicle timeout at once.
InitNav == InitWith({p \in Params : p.startup_delay = 0})

NextNav ==
    \/ Advance(TRACKING_TIMEOUT_MS, MaxTimeMs)
    \/ Tick({NoFix}, {"SAFETY_ARMED"}, {45})
    \/ tracking_update_position(MovingMsg)
    \/ \E a \in AltDiffs : tracking_update_pressure(a)
    \/ \E msg \in ManualMsgs : tracking_manual_control(msg)
    \/ \E mode \in ControlModes : mode_command(mode)
    \/ calibration_request

SpecNav == InitNav /\ [][NextNav]_vars

-----------------------------------------------------------------------------
(* Claims *)

\* the step of update_tracking that runs update_vehicle_pos_estimate
EstimateStep == pc = "idle" /\ pc' = "update_tracker_position"

\* the step of update_tracking that runs update_bearing_and_distance
CalculatorStep == pc = "update_bearing_and_distance" /\ pc' = "dispatch"

\* milliseconds on the clock since the last tracking_update_position
SinceTelemetry == now_ms - last_rx_ms

EstimationCalls ==
    <<"update_vehicle_pos_estimate", "update_tracker_position",
      "update_bearing_and_distance">>

\* C1: whenever update_vehicle_pos_estimate runs 5.0 s or more after the last
\* tracking_update_position, it leaves location_valid false, however long the
\* gap is.
C1_LostAfterTimeout ==
    [][(EstimateStep /\ last_rx_ms # -1 /\ SinceTelemetry >= TRACKING_TIMEOUT_MS)
           => ~vehicle'.location_valid]_vars

\* C2: update_initialising switches INITIALISING to AUTO if and only if the
\* pitch has been inside the band without a break for at least the startup
\* delay; time in the band before an exit does not count.
C2_SettledBeforeAuto ==
    [][(pc = "dispatch" /\ control_mode = INITIALISING /\ called' # called)
           => ((control_mode' = AUTO)
                  <=> (band_since' # -1
                         /\ now_ms - band_since' >= g.startup_delay * 1000))]_vars

\* C3: in a tick where the startup delay has not elapsed since start-up, or the
\* safety switch reports SAFETY_DISARMED, no mode handler is called and
\* control_mode is unchanged, and the three estimation steps have run.
C3_GatesWithholdDispatch ==
    [][\A safety \in SafetyStates, p \in AhrsPitches :
           (update_tracking_dispatch(safety, p)
              /\ (now_ms < g.startup_delay * 1000 \/ safety = "SAFETY_DISARMED"))
           => (called' = EstimationCalls /\ control_mode' = control_mode)]_vars

C3_Witness ==
    pc = "return" /\ called = EstimationCalls /\ now_ms < g.startup_delay * 1000

\* C4: update_bearing_and_distance, run with location_valid false or in
\* SERVO_TEST, leaves every field of nav_status as it was.
C4_CalculatorGate ==
    [][(CalculatorStep /\ (~vehicle.location_valid \/ control_mode = SERVO_TEST))
           => nav_status' = nav_status]_vars

C4_Witness ==
    /\ pc = "dispatch"
    /\ control_mode = SERVO_TEST
    /\ vehicle.location_valid
    /\ nav_status.distance # get_distance(current_loc, vehicle.location_estimate)

\* C5: tracking_update_pressure, in barometric mode with a calibration pending,
\* ends with altitude_offset = -d, altitude_difference = 0 and the flag
\* cleared, d being the altitude difference for this sample: the sample plus
\* the offset held so far, or the value kept when the sample is NaN.
C5_Calibration ==
    [][\A a \in AltDiffs :
           (tracking_update_pressure(a) /\ g.alt_source = 0
              /\ nav_status.need_altitude_calibration)
           => LET d == IF a.isnan THEN nav_status.altitude_difference
                       ELSE a.val + nav_status.altitude_offset
              IN  /\ nav_status'.altitude_offset = -d
                  /\ nav_status'.altitude_difference = 0
                  /\ ~nav_status'.need_altitude_calibration]_vars

C5_Witness ==
    /\ g.alt_source = 0
    /\ pc = "idle"
    /\ nav_status.altitude_offset = -12
    /\ nav_status.altitude_difference = 0
    /\ ~nav_status.need_altitude_calibration

\* C6: in barometric mode a NaN sample leaves altitude_difference as it was,
\* whatever nav_status held before.
C6_NanSampleKeepsDifference ==
    [][(tracking_update_pressure(NaN) /\ g.alt_source = 0)
           => nav_status'.altitude_difference = nav_status.altitude_difference]_vars

\* the filter equation of an axis, new = 0.95 * old + 0.05 * raw, in hundredths
ExactBlend(new, old, raw) == 100 * new = 95 * old + 5 * raw

\* C7: the first fix of 2D quality or better, met with old_loc at the zero
\* sentinel, makes current_loc and old_loc the raw fix; every later one makes
\* each axis of current_loc 0.95 * old_loc + 0.05 * raw, and old_loc the same.
C7_FilterExact ==
    [][\A fix \in FilterFixes :
           (update_tracker_position(fix) /\ fix.status >= GPS_OK_FIX_2D)
           => IF old_loc = ZeroLoc
              THEN current_loc' = fix.location /\ old_loc' = fix.location
              ELSE /\ ExactBlend(current_loc'.lat, old_loc.lat, fix.location.lat)
                   /\ ExactBlend(current_loc'.lng, old_loc.lng, fix.location.lng)
                   /\ ExactBlend(current_loc'.alt, old_loc.alt, fix.location.alt)
                   /\ old_loc' = current_loc']_vars

\* C8: once update_tracker_position has processed a fix of 2D quality or
\* better, old_loc is never again the zero sentinel.
C8_SentinelNeverAgain ==
    [][/\ \A fix \in FilterFixes :
              (update_tracker_position(fix) /\ fix.status >= GPS_OK_FIX_2D)
              => old_loc' # ZeroLoc
       /\ (old_loc # ZeroLoc => old_loc' # ZeroLoc)]_vars

\* C9: update_vehicle_pos_estimate, run less than 5.0 s after the last
\* tracking_update_position, sets location_estimate to the last-known location
\* moved along heading by ground_speed * dt, dt being the time on the clock
\* since that message, and sets location_valid; at dt = 0 the estimate is the
\* last-known location.
C9_DeadReckoning ==
    [][(EstimateStep /\ last_rx_ms # -1 /\ SinceTelemetry < TRACKING_TIMEOUT_MS)
           => /\ vehicle'.location_valid
              /\ vehicle'.location_estimate =
                     location_update(vehicle.location, vehicle.heading,
                                     (vehicle.ground_speed * SinceTelemetry) \div 1000)
              /\ (SinceTelemetry = 0 => vehicle'.location_estimate = vehicle.location)]_vars

C9_Witness ==
    /\ pc = "update_tracker_position"
    /\ last_rx_ms # -1
    /\ SinceTelemetry = 2000
    /\ vehicle.location_valid
    /\ vehicle.location_estimate = [vehicle.location EXCEPT !.lng = @ + 20]

\* C10: update_vehicle_pos_estimate, run 5.0 s or more after the last
\* tracking_update_position, changes nothing of vehicle but location_valid,
\* which becomes false.
C10_LostKeepsEstimate ==
    [][(EstimateStep /\ last_rx_ms # -1 /\ SinceTelemetry >= TRACKING_TIMEOUT_MS)
           => vehicle' = [vehicle EXCEPT !.location_valid = FALSE]]_vars

\* C11: tracking_manual_control, for every (x, y), sets bearing = x, pitch = y,
\* distance = 0, manual_control_yaw = (x # 0x7FFF) and manual_control_pitch =
\* (y # 0x7FFF), and changes no other field of nav_status.
C11_ManualIngest ==
    [][\A msg \in ManualMsgs :
           tracking_manual_control(msg)
           => /\ nav_status'.bearing = msg.x
              /\ nav_status'.pitch = msg.y
              /\ nav_status'.distance = 0
              /\ nav_status'.manual_control_yaw = (msg.x # 32767)
              /\ nav_status'.manual_control_pitch = (msg.y # 32767)
              /\ nav_status'.altitude_difference = nav_status.altitude_difference
              /\ nav_status'.altitude_offset = nav_status.altitude_offset
              /\ nav_status'.need_altitude_calibration
                     = nav_status.need_altitude_calibration]_vars

C11_Witness ==
    /\ nav_status.bearing = 32767
    /\ nav_status.pitch = 100
    /\ nav_status.distance = 0
    /\ ~nav_status.manual_control_yaw
    /\ nav_status.manual_control_pitch
    /\ nav_status.altitude_difference = 12
    /\ vehicle.location_valid

\* C12: update_bearing_and_distance, run with location_valid true outside
\* SERVO_TEST, leaves bearing as it was in SCAN or under a manual yaw override,
\* and pitch as it was in SCAN or under a manual pitch override; otherwise the
\* axis is recomputed from the geometry; distance is recomputed in every case.
C12_AxisOwnership ==
    [][(CalculatorStep /\ vehicle.location_valid /\ control_mode # SERVO_TEST)
           => LET d == get_distance(current_loc, vehicle.location_estimate)
              IN  /\ nav_status'.distance = d
                  /\ nav_status'.bearing =
                         IF control_mode = SCAN \/ nav_status.manual_control_yaw
                         THEN nav_status.bearing
                         ELSE get_bearing_cd(current_loc, vehicle.location_estimate)
                                  \div 100
                  /\ nav_status'.pitch =
                         IF control_mode = SCAN \/ nav_status.manual_control_pitch
                         THEN nav_status.pitch
                         ELSE Atan2Degrees(nav_status.altitude_difference, d)]_vars

C12_Witness ==
    /\ pc = "dispatch"
    /\ vehicle.location_valid
    /\ control_mode = AUTO
    /\ nav_status.manual_control_yaw
    /\ ~nav_status.manual_control_pitch
    /\ nav_status.bearing = 100
    /\ nav_status.distance = 10
    /\ nav_status.pitch = 67

\* C13: with alt_source = 1, at the end of every update_tracking tick that has
\* the vehicle estimate valid, altitude_difference is the vehicle altitude less
\* the tracker's current altitude, in metres.
C13_GpsAltEveryTick ==
    (pc = "return" /\ g.alt_source = 1 /\ last_rx_ms # -1 /\ vehicle.location_valid)
        => nav_status.altitude_difference
               = TruncDiv(vehicle.location.alt - current_loc.alt, 100)

\* C14: the value update_armed_disarmed gives AP_Notify::flags.armed, whenever
\* it is called, is true if and only if a tracking_update_position arrived
\* less than 5000 ms earlier, whatever millis() read at the arrival.
C14_ArmedIffRecentTelemetry ==
    pc = "idle"
        => (ArmedDisarmed(vehicle)
               <=> (last_rx_ms # -1 /\ SinceTelemetry < TRACKING_TIMEOUT_MS))

\* C15: update_tracker_position, run while the GPS status is below a 2D fix,
\* leaves current_loc and old_loc as they were, whatever the filter held.
C15_FrozenWithoutFix ==
    [][(pc = "update_tracker_position" /\ gps_read' # 0 /\ gps_read' < GPS_OK_FIX_2D)
           => (current_loc' = current_loc /\ old_loc' = old_loc)]_vars

C15_Witness ==
    /\ pc = "update_bearing_and_distance"
    /\ gps_read = NO_FIX
    /\ old_loc # ZeroLoc
    /\ current_loc = old_loc

\* C16: when tracking_update_pressure performs a pending calibration on a
\* valid sample, the next call with the same differential altitude gives
\* altitude_difference = 0, whatever altitude_offset was before the calibration.
C16_CalibrationZeroesReading ==
    (pc = "idle" /\ g.alt_source = 0 /\ nav_status.need_altitude_calibration)
        => \A a \in AltDiffs :
               ~a.isnan
               => PressureUpdate(PressureUpdate(nav_status, a), a).altitude_difference = 0

\* a step of update_tracking
TickStep == pc' # pc

\* C17: while manual_control_pitch is true no step of update_tracking changes
\* nav_status.pitch, and while manual_control_yaw is true none changes
\* nav_status.bearing, in any control mode.
C17_ManualAxisKept ==
    [][TickStep
           => /\ (nav_status.manual_control_pitch
                     => nav_status'.pitch = nav_status.pitch)
              /\ (nav_status.manual_control_yaw
                     => nav_status'.bearing = nav_status.bearing)]_vars

\* the handler each mode is to be given
ModeHandler ==
    [mode \in ControlModes |->
        CASE mode = AUTO -> "update_auto"
          [] mode = MANUAL -> "update_manual"
          [] mode = SCAN -> "update_scan"
          [] mode = SERVO_TEST -> "update_servo_test"
          [] mode = STOP -> "disarm_servos"
          [] mode = INITIALISING -> "update_initialising"]

\* C18: the only change of control_mode a step of update_tracking makes is
\* INITIALISING -> AUTO, made by update_initialising; a tick in any other mode
\* leaves control_mode alone; a tick that passes both gates calls exactly one
\* handler, that of the mode at the start of the dispatch, which for STOP is
\* disarm_servos, every time.
C18_ModeMachine ==
    [][TickStep
           => /\ (control_mode' # control_mode
                     => /\ control_mode = INITIALISING
                        /\ control_mode' = AUTO
                        /\ called' = Append(EstimationCalls, "update_initialising"))
              /\ (control_mode # INITIALISING => control_mode' = control_mode)
              /\ \A safety \in SafetyStates, p \in AhrsPitches :
                     (update_tracking_dispatch(safety, p)
                        /\ ~(now_ms < g.startup_delay * 1000)
                        /\ safety # "SAFETY_DISARMED")
                     => called' = Append(EstimationCalls, ModeHandler[control_mode])]_vars

C18_Witness ==
    /\ pc = "return"
    /\ control_mode = STOP
    /\ g.startup_delay > 0
    /\ called = Append(EstimationCalls, "disarm_servos")

\* C19: every update_initialising call disables the yaw output and then calls
\* update_pitch_servo, once, with 45 + pitch_trim clamped to [-90, 90], for
\* every pitch_trim and whether or not the call switches to AUTO.
C19_InitialisingActuation ==
    [][(pc = "dispatch" /\ control_mode = INITIALISING /\ called' # called)
           => LET target == 45 + g.pitch_trim
                  clamped == IF target < -90 THEN -90
                             ELSE IF target > 90 THEN 90 ELSE target
                  pitch_calls == {i \in 1..Len(servo_calls') :
                                     servo_calls'[i].call = "update_pitch_servo"}
              IN  /\ Cardinality(pitch_calls) = 1
                  /\ \A i \in pitch_calls :
                         /\ servo_calls'[i].arg = clamped
                         /\ servo_calls'[i].arg \in -90..90
                         /\ \E j \in 1..(i - 1) :
                                servo_calls'[j].call = "channel_yaw.disable_out"]_vars

C19_Witness ==
    /\ pc = "return"
    /\ control_mode = AUTO
    /\ g.pitch_trim = 50
    /\ Len(servo_calls) = 3
    /\ servo_calls[1].call = "channel_yaw.disable_out"
    /\ servo_calls[3] = [call |-> "update_pitch_servo", arg |-> 90]

\* C20: before the first tracking_update_position, every run of
\* update_vehicle_pos_estimate leaves location_valid false, in agreement with
\* the armed indicator update_armed_disarmed would compute at that instant.
C20_NoValidityWithoutTelemetry ==
    [][(EstimateStep /\ last_rx_ms = -1)
           => /\ ~vehicle'.location_valid
              /\ vehicle'.location_valid = ArmedDisarmed(vehicle')]_vars

====
